---- MODULE Spec2Model ----
(***************************************************************************)
(* QuantEvolve core: the feature map (archive) of                          *)
(* src/src/core/feature_map.py and the island-model evolutionary database  *)
(* of src/src/core/evolutionary_database.py.                               *)
(*                                                                         *)
(* Strategy objects are shared by reference between the archive, the       *)
(* island populations, the elite lists and the rejected archive, and       *)
(* FeatureMap.add mutates them (feature_vector, island_id).  They live in  *)
(* one arena, `strategies`; every collection holds arena indices, and the  *)
(* index of a strategy stands for its strategy_id.                         *)
(***************************************************************************)
EXTENDS Integers, Sequences, FiniteSets, TLC

VARIABLES strategies, archive, num_added, num_rejected, num_improved,
          islands, rejected_archive, insights, current_generation, call, files

vars == <<strategies, archive, num_added, num_rejected, num_improved,
          islands, rejected_archive, insights, current_generation, call, files>>

(***************************************************************************)
(* Bounds of the model.                                                    *)
(***************************************************************************)
MaxStrategies == 3

MaxPopulation == 3

MaxGeneration == 1

MaxInsights == 1

MaxIslands == 4

MaxLog == 3

\* the longest population a migration between re-initialised islands may leave
MaxMigratedPopulation == 4

\* the longest insight log the insight loop of evolve_island may leave
MaxExtractedLog == 152

(***************************************************************************)
(* Configuration and constants of the program.                             *)
(***************************************************************************)
None == 0

NoVector == << >>

NoRange == << >>

ClipScale == 10000

ClipMax == 9999

Dimensions ==
  << [name |-> "strategy_category", type |-> "binary", bins |-> 4, range |-> NoRange],
     [name |-> "sharpe_ratio", type |-> "continuous", bins |-> 3, range |-> <<0, 3>>],
     [name |-> "trading_frequency", type |-> "continuous", bins |-> 1, range |-> NoRange],
     [name |-> "regime", type |-> "label", bins |-> 1, range |-> NoRange] >>

categories == << "Momentum/Trend" >>

num_islands == Len(categories) + 1

DimIdx == 1 .. Len(Dimensions)

RECURSIVE CellPrefix(_)
\* the index tuples of the first n axes of the archive
CellPrefix(n) ==
  IF n = 0 THEN { << >> }
  ELSE { Append(p, x) : p \in CellPrefix(n - 1), x \in 0 .. (Dimensions[n].bins - 1) }

\* the cells of np.empty(shape), shape = the bins of the dimensions
Cells == CellPrefix(Len(Dimensions))

\* metrics dictionaries a caller may hand in (integers stand for the floats):
\* the metrics of a seed (data_agent.py:223-231), a Sharpe ratio below the
\* range with a category integer beyond the bins, and a Sharpe ratio above
\* the range with no category integer
MetricsInputs ==
  { [sharpe_ratio |-> 0, information_ratio |-> 0, max_drawdown |-> 0, strategy_category_bin |-> 1],
    [sharpe_ratio |-> -1, strategy_category_bin |-> 5],
    [sharpe_ratio |-> 4, max_drawdown |-> -1] }

(***************************************************************************)
(* Strategy (feature_map.py)                                               *)
(***************************************************************************)
Get(metrics, key, default) == IF key \in DOMAIN metrics THEN metrics[key] ELSE default

calculate_combined_score(metrics) ==
  Get(metrics, "sharpe_ratio", 0) + Get(metrics, "information_ratio", 0)
    + Get(metrics, "max_drawdown", 0)

Strategy(metrics, generation, island_id) ==
  [ metrics |-> metrics,
    feature_vector |-> NoVector,
    combined_score |-> IF DOMAIN metrics # {} THEN calculate_combined_score(metrics) ELSE 0,
    generation |-> generation,
    island_id |-> island_id ]

(***************************************************************************)
(* FeatureMap (feature_map.py)                                             *)
(***************************************************************************)
\* ContinuousBin without the np.clip
ContinuousBin_unclipped(value, min_val, max_val, bins) ==
  ((value - min_val) * bins) \div (max_val - min_val)

\* int(np.clip((value - min) / (max - min), 0.0, 0.9999) * bins)
ContinuousBin(value, min_val, max_val, bins) ==
  LET num == value - min_val
      den == max_val - min_val
  IN  IF num <= 0 THEN 0
      ELSE IF num * ClipScale >= ClipMax * den THEN (ClipMax * bins) \div ClipScale
      ELSE (num * bins) \div den

DimBin(dim, metrics) ==
  IF dim.name = "strategy_category"
    THEN Get(metrics, "strategy_category_bin", 0) % dim.bins
  ELSE IF dim.type = "continuous"
    THEN IF dim.range # NoRange
           THEN ContinuousBin(Get(metrics, dim.name, 0), dim.range[1], dim.range[2], dim.bins)
           ELSE 0
  ELSE 0

_compute_feature_vector(strategy) ==
  IF strategy.feature_vector # NoVector
    THEN strategy.feature_vector
    ELSE [i \in DimIdx |-> DimBin(Dimensions[i], strategy.metrics)]

\* numpy indexing of self.archive[feature_vector]: an index in -bins .. bins-1
\* is accepted (a negative one counts from the end), any other raises IndexError
IndexInBounds(fv) ==
  /\ DOMAIN fv = DimIdx
  /\ \A i \in DimIdx : fv[i] >= 0 - Dimensions[i].bins /\ fv[i] < Dimensions[i].bins

IndexCell(fv) == [i \in DimIdx |-> IF fv[i] < 0 THEN fv[i] + Dimensions[i].bins ELSE fv[i]]

\* IsBetter with >= in place of >
IsBetter_or_equal(new_score, existing_score) == new_score >= existing_score

\* IsBetter with the comparison the wrong way round
IsBetter_reversed(new_score, existing_score) == new_score < existing_score

\* the comparison of feature_map.py:146
IsBetter(new_score, existing_score) == new_score > existing_score

\* FeatureMap.add counting a replacement as an addition as well
FeatureMap_add_counting_replacements(db, sid, island_id) ==
  LET fv == _compute_feature_vector(db.strategies[sid])
      s1 == [db.strategies EXCEPT ![sid].feature_vector = fv, ![sid].island_id = island_id]
      d1 == [db EXCEPT !.strategies = s1]
  IN  IF ~IndexInBounds(fv)
        THEN [db |-> d1, ret |-> FALSE, raised |-> "IndexError"]
      ELSE
        LET cell == IndexCell(fv)
            existing == db.archive[cell]
        IN  IF existing = None
              THEN [db |-> [d1 EXCEPT !.archive[cell] = sid, !.num_added = @ + 1],
                    ret |-> TRUE, raised |-> ""]
            ELSE IF IsBetter(s1[sid].combined_score, s1[existing].combined_score)
              THEN [db |-> [d1 EXCEPT !.archive[cell] = sid, !.num_improved = @ + 1,
                                 !.num_added = @ + 1],
                    ret |-> TRUE, raised |-> ""]
            ELSE [db |-> [d1 EXCEPT !.num_rejected = @ + 1],
                  ret |-> FALSE, raised |-> ""]

\* FeatureMap.add on a database record db; yields the new record, the value
\* returned and the exception raised ("" when none)
FeatureMap_add(db, sid, island_id) ==
  LET fv == _compute_feature_vector(db.strategies[sid])
      s1 == [db.strategies EXCEPT ![sid].feature_vector = fv, ![sid].island_id = island_id]
      d1 == [db EXCEPT !.strategies = s1]
  IN  IF ~IndexInBounds(fv)
        THEN [db |-> d1, ret |-> FALSE, raised |-> "IndexError"]
      ELSE
        LET cell == IndexCell(fv)
            existing == db.archive[cell]
        IN  IF existing = None
              THEN [db |-> [d1 EXCEPT !.archive[cell] = sid, !.num_added = @ + 1],
                    ret |-> TRUE, raised |-> ""]
            ELSE IF IsBetter(s1[sid].combined_score, s1[existing].combined_score)
              THEN [db |-> [d1 EXCEPT !.archive[cell] = sid, !.num_improved = @ + 1],
                    ret |-> TRUE, raised |-> ""]
            ELSE [db |-> [d1 EXCEPT !.num_rejected = @ + 1],
                  ret |-> FALSE, raised |-> ""]

FeatureMap_get(db, fv) == IF fv \in Cells THEN db.archive[fv] ELSE None

\* get_filled_cells counting the admissions instead of the cells
get_filled_cells_counting_admissions(db) == db.num_added + db.num_improved

\* FeatureMap.get_filled_cells: np.sum(self.archive != None)
get_filled_cells(db) == Cardinality({ c \in Cells : db.archive[c] # None })

RECURSIVE ShapeProduct(_)
\* np.prod of the first n entries of self.archive.shape
ShapeProduct(n) == IF n = 0 THEN 1 ELSE Dimensions[n].bins * ShapeProduct(n - 1)

\* FeatureMap.get_coverage, as the fraction num / den
get_coverage(db) == [num |-> get_filled_cells(db), den |-> ShapeProduct(Len(Dimensions))]

(***************************************************************************)
(* Island (evolutionary_database.py)                                       *)
(***************************************************************************)
\* Island.add_strategy inserting at the front of the population
Island_add_strategy_front(db, k, sid, on_map) ==
  [db EXCEPT !.strategies[sid].island_id = db.islands[k].island_id,
             !.islands[k].population = << sid >> \o @,
             !.islands[k].strategies_on_map = IF on_map THEN Append(@, sid) ELSE @]

\* Island.add_strategy on the island at position k of db.islands
Island_add_strategy(db, k, sid, on_map) ==
  [db EXCEPT !.strategies[sid].island_id = db.islands[k].island_id,
             !.islands[k].population = Append(@, sid),
             !.islands[k].strategies_on_map = IF on_map THEN Append(@, sid) ELSE @]

\* Island.sample_from_map: the values it can return
Island_sample_from_map(island) ==
  IF island.strategies_on_map = << >> THEN { None }
  ELSE { island.strategies_on_map[j] : j \in 1 .. Len(island.strategies_on_map) }

\* Island.sample_from_population: the values it can return
Island_sample_from_population(island) ==
  IF island.population = << >> THEN { None }
  ELSE { island.population[j] : j \in 1 .. Len(island.population) }

(***************************************************************************)
(* EvolutionaryDatabase (evolutionary_database.py)                         *)
(***************************************************************************)
DB == [ strategies |-> strategies, archive |-> archive, num_added |-> num_added,
        num_rejected |-> num_rejected, num_improved |-> num_improved,
        islands |-> islands, rejected_archive |-> rejected_archive ]

SetDB(db) ==
  /\ strategies' = db.strategies
  /\ archive' = db.archive
  /\ num_added' = db.num_added
  /\ num_rejected' = db.num_rejected
  /\ num_improved' = db.num_improved
  /\ islands' = db.islands
  /\ rejected_archive' = db.rejected_archive

NoCall == [ op |-> "", island_id |-> 0, strategy |-> None, added |-> FALSE,
            raised |-> "", num_best |-> 0, num_diverse |-> 0, num_random |-> 0,
            bitflip_pct |-> 0, best |-> << >>, diverse |-> << >>, random |-> << >>,
            alpha |-> 0, source |-> "",
            max_insights |-> 0, curated |-> FALSE, selected |-> << >>,
            generation |-> 0, failure |-> "", num_migrants |-> 0,
            n |-> 0, recent |-> << >> ]

\* add_strategy calling island.add_strategy(strategy, on_map=True)
add_strategy_on_map(db, sid, island_id) ==
  LET k == island_id + 1
      d1 == [db EXCEPT !.strategies[sid].island_id = db.islands[k].island_id,
                       !.islands[k].population = Append(@, sid),
                       !.islands[k].strategies_on_map = Append(@, sid)]
      r == FeatureMap_add(d1, sid, island_id)
  IN  IF r.raised # ""
        THEN r
      ELSE IF r.ret
        THEN [r EXCEPT !.db.islands[k].strategies_on_map = Append(@, sid)]
      ELSE [r EXCEPT !.db.rejected_archive = Append(@, sid)]

\* EvolutionaryDatabase.add_strategy; island_id is the Python list index
add_strategy(db, sid, island_id) ==
  LET k == island_id + 1
      d1 == Island_add_strategy(db, k, sid, FALSE)
      r == FeatureMap_add(d1, sid, island_id)
  IN  IF r.raised # ""
        THEN r
      ELSE IF r.ret
        THEN [r EXCEPT !.db.islands[k].strategies_on_map = Append(@, sid)]
      ELSE [r EXCEPT !.db.rejected_archive = Append(@, sid)]

\* one iteration of the loop of initialize_islands for the seed at arena index sid
InitializeOne(db, i, category, sid) ==
  LET island == [island_id |-> i, category |-> category,
                 population |-> << >>, strategies_on_map |-> << >>]
      d0 == [db EXCEPT !.islands = Append(@, island)]
      k == Len(d0.islands)
      d1 == Island_add_strategy(d0, k, sid, TRUE)
      r == FeatureMap_add(d1, sid, i)
  IN  IF r.raised # ""
        THEN r
        ELSE [r EXCEPT !.db.islands[k].strategies_on_map = << sid >>]

RECURSIVE InitializeLoop(_, _, _)
InitializeLoop(db, seed_ids, i) ==
  LET names == categories \o << "benchmark" >>
  IN  IF i >= Len(names) \/ i >= Len(seed_ids)
        THEN [db |-> db, ret |-> FALSE, raised |-> ""]
        ELSE LET r == InitializeOne(db, i, names[i + 1], seed_ids[i + 1])
             IN  IF r.raised # "" THEN r ELSE InitializeLoop(r.db, seed_ids, i + 1)

\* initialize_islands returning quietly on a wrong number of seeds
initialize_islands_silent(db, seed_ids) ==
  IF Len(seed_ids) # num_islands
    THEN [db |-> db, ret |-> FALSE, raised |-> ""]
    ELSE InitializeLoop(db, seed_ids, 0)

\* EvolutionaryDatabase.initialize_islands for the seeds at the arena indices seed_ids
initialize_islands(db, seed_ids) ==
  IF Len(seed_ids) # num_islands
    THEN [db |-> db, ret |-> FALSE, raised |-> "ValueError"]
    ELSE InitializeLoop(db, seed_ids, 0)

\* alpha in percent: 0.0, the default 0.5 and 1.0
Alphas == { 0, 50, 100 }

\* values of np.random.random(), in [0, 1), in percent
RandomDraws == { 0, 49, 50, 99 }

\* sample_parent comparing with <= in place of <
sample_parent_inclusive(db, island_id, alpha, u) ==
  LET island == db.islands[island_id + 1]
  IN  IF u <= alpha
        THEN { [source |-> "map", strategy |-> x] : x \in Island_sample_from_map(island) }
        ELSE { [source |-> "population", strategy |-> x] :
                 x \in Island_sample_from_population(island) }

\* EvolutionaryDatabase.sample_parent: the values it can return, with the list
\* they were drawn from; alpha and the draw u of np.random.random() in percent
sample_parent(db, island_id, alpha, u) ==
  LET island == db.islands[island_id + 1]
  IN  IF u < alpha
        THEN { [source |-> "map", strategy |-> x] : x \in Island_sample_from_map(island) }
        ELSE { [source |-> "population", strategy |-> x] :
                 x \in Island_sample_from_population(island) }

\* sorted(seq, key=combined_score, reverse=True): stable, descending
RECURSIVE InsertByScore(_, _, _)
InsertByScore(strats, sorted, sid) ==
  IF sorted = << >> THEN << sid >>
  ELSE IF strats[Head(sorted)].combined_score >= strats[sid].combined_score
    THEN << Head(sorted) >> \o InsertByScore(strats, Tail(sorted), sid)
  ELSE << sid >> \o sorted

RECURSIVE SortByScore(_, _)
SortByScore(strats, seq) ==
  IF seq = << >> THEN << >>
  ELSE InsertByScore(strats, SortByScore(strats, SubSeq(seq, 1, Len(seq) - 1)), seq[Len(seq)])

Min(a, b) == IF a <= b THEN a ELSE b

Max(a, b) == IF a >= b THEN a ELSE b

\* seq[:n] for n >= 0
Take(seq, n) == SubSeq(seq, 1, Min(n, Len(seq)))

\* Island.get_best_strategies
get_best_strategies(strats, island, n) ==
  IF island.strategies_on_map = << >> THEN << >>
  ELSE Take(SortByScore(strats, island.strategies_on_map), n)

\* the migrants appended to the population of the island at position k: those
\* of every source position j whose list index j-1 differs from the target's
\* island_id, in source order
RECURSIVE MigrantsFor(_, _, _)
MigrantsFor(target_id, migrants_per_island, j) ==
  IF j > Len(migrants_per_island) THEN << >>
  ELSE (IF (j - 1) # target_id THEN migrants_per_island[j] ELSE << >>)
         \o MigrantsFor(target_id, migrants_per_island, j + 1)

\* ReceiveMigrants going through Island.add_strategy(migrant, on_map=True)
ReceiveMigrants_as_elites(island, migrants) ==
  [island EXCEPT !.population = @ \o migrants, !.strategies_on_map = @ \o migrants]

\* target_island.population.append(migrant) of evolutionary_database.py:337
ReceiveMigrants(island, migrants) == [island EXCEPT !.population = @ \o migrants]

\* EvolutionaryDatabase.migrate_strategies
migrate_strategies(db, num_migrants) ==
  LET migrants_per_island ==
        [j \in 1 .. Len(db.islands) |->
           get_best_strategies(db.strategies, db.islands[j], num_migrants)]
  IN  [db EXCEPT !.islands =
         [k \in 1 .. Len(db.islands) |->
            ReceiveMigrants(db.islands[k],
                            MigrantsFor(db.islands[k].island_id, migrants_per_island, 1))]]

\* self.insights[-n:] for n >= 0: -0 is 0, so the slice starts at the first
\* entry when n is 0, and at the first entry when n exceeds the length
get_recent_insights(log, n) ==
  IF log = << >> THEN << >>
  ELSE LET start == IF n = 0 THEN 0 ELSE Max(Len(log) - n, 0)
       IN  SubSeq(log, start + 1, Len(log))

\* EvolutionaryDatabase.add_insight
add_insight(log, insight, generation) ==
  Append(log, [insight EXCEPT !.generation = generation])

Range(seq) == { seq[i] : i \in 1 .. Len(seq) }

\* insight texts: three that overlap in 3 of 4, 2 of 4 and 2 of 3 words (one
\* of them capitalised), one that shares a single word with them, the empty text
InsightContents ==
  { "add momentum filter", "Add momentum filter now", "add momentum",
    "consider a novel volume filter", "" }

\* set(content.lower().split()) for the texts of InsightContents
Words(content) ==
  CASE content = "add momentum filter" -> { "add", "momentum", "filter" }
    [] content = "Add momentum filter now" -> { "add", "momentum", "filter", "now" }
    [] content = "add momentum" -> { "add", "momentum" }
    [] content = "consider a novel volume filter" ->
         { "consider", "a", "novel", "volume", "filter" }
    [] OTHER -> { }

novelty_keywords ==
  { "novel", "new", "innovative", "unique", "unexpected", "discovered", "breakthrough",
    "surprising" }

actionability_keywords ==
  { "should", "could", "consider", "implement", "improve", "optimize", "add", "remove",
    "adjust", "modify" }

\* the keywords of both lists that are substrings of content.lower(), for the
\* texts of InsightContents
KeywordsIn(content) ==
  CASE content = "add momentum filter" -> { "add" }
    [] content = "Add momentum filter now" -> { "add" }
    [] content = "add momentum" -> { "add" }
    [] content = "consider a novel volume filter" -> { "consider", "novel" }
    [] OTHER -> { }

\* _calculate_insight_importance times 150 * max(current_generation, 1), which
\* is the same positive factor for every insight of one curation:
\*   0.3 * generation / max(current_generation, 1)
\* + 0.4 * clip((strategy_score + 5) / 15, 0, 1)
\* + 0.2 * min(1, novelty / 3) + 0.1 * min(1, actionability / 3)
_calculate_insight_importance(insight, generation_now) ==
  LET g == Max(generation_now, 1)
      strategy_score == Get(insight, "strategy_score", 0)
      content == Get(insight, "content", "")
      novelty_score == Cardinality(novelty_keywords \cap KeywordsIn(content))
      action_score == Cardinality(actionability_keywords \cap KeywordsIn(content))
  IN  45 * Get(insight, "generation", 0)
        + g * Max(0, Min(60, 4 * (strategy_score + 5)))
        + 10 * g * Min(3, novelty_score)
        + 5 * g * Min(3, action_score)

RECURSIVE InsertByImportance(_, _, _)
InsertByImportance(sorted, insight, generation_now) ==
  IF sorted = << >> THEN << insight >>
  ELSE IF _calculate_insight_importance(Head(sorted), generation_now)
            >= _calculate_insight_importance(insight, generation_now)
    THEN << Head(sorted) >> \o InsertByImportance(Tail(sorted), insight, generation_now)
  ELSE << insight >> \o sorted

RECURSIVE SortByImportance(_, _)
\* scored_insights.sort(key=score, reverse=True): stable, descending
SortByImportance(log, generation_now) ==
  IF log = << >> THEN << >>
  ELSE InsertByImportance(SortByImportance(SubSeq(log, 1, Len(log) - 1), generation_now),
                          log[Len(log)], generation_now)

\* IsTooSimilar with a threshold of 0.75
IsTooSimilar_above_three_quarters(content, selected_content) ==
  LET words1 == Words(content)
      words2 == Words(selected_content)
  IN  IF words1 = { } \/ words2 = { } THEN FALSE
      ELSE 4 * Cardinality(words1 \cap words2) > 3 * Cardinality(words1 \cup words2)

\* the similarity test of _apply_diversity_selection: intersection / union > 0.5,
\* skipped when either text has no words
IsTooSimilar(content, selected_content) ==
  LET words1 == Words(content)
      words2 == Words(selected_content)
  IN  IF words1 = { } \/ words2 = { } THEN FALSE
      ELSE 2 * Cardinality(words1 \cap words2) > Cardinality(words1 \cup words2)

RECURSIVE DiversityPass(_, _, _, _)
\* the first loop of _apply_diversity_selection, from position i of the sorted list
DiversityPass(sorted, max_insights, i, selected) ==
  IF i > Len(sorted) THEN selected
  ELSE LET insight == sorted[i]
           is_diverse == \A j \in 1 .. Len(selected) :
                           ~IsTooSimilar(Get(insight, "content", ""),
                                         Get(selected[j], "content", ""))
       IN  IF is_diverse
             THEN IF Len(selected) + 1 >= max_insights
                    THEN Append(selected, insight)
                    ELSE DiversityPass(sorted, max_insights, i + 1, Append(selected, insight))
             ELSE DiversityPass(sorted, max_insights, i + 1, selected)

RECURSIVE FillPass(_, _, _, _)
\* the second loop of _apply_diversity_selection (`insight not in selected`
\* compares the dictionaries by value)
FillPass(sorted, max_insights, i, selected) ==
  IF i > Len(sorted) THEN selected
  ELSE IF sorted[i] \notin Range(selected)
    THEN IF Len(selected) + 1 >= max_insights
           THEN Append(selected, sorted[i])
           ELSE FillPass(sorted, max_insights, i + 1, Append(selected, sorted[i]))
  ELSE FillPass(sorted, max_insights, i + 1, selected)

\* _apply_diversity_selection; `diverse` is the list after the first loop
_apply_diversity_selection(sorted, max_insights) ==
  IF Len(sorted) <= max_insights
    THEN [result |-> sorted, diverse |-> sorted]
    ELSE LET selected == DiversityPass(sorted, max_insights, 1, << >>)
         IN  [result |-> IF Len(selected) < max_insights
                           THEN FillPass(sorted, max_insights, 1, selected)
                           ELSE selected,
              diverse |-> selected]

\* EvolutionaryDatabase.curate_insights
curate_insights(log, max_insights, generation_now) ==
  IF Len(log) <= max_insights
    THEN [result |-> log, diverse |-> << >>, curated |-> FALSE]
    ELSE LET r == _apply_diversity_selection(SortByImportance(log, generation_now),
                                             max_insights)
         IN  [result |-> r.result, diverse |-> r.diverse, curated |-> TRUE]

RECURSIVE FilterOut(_, _)
\* [s for s in seq if s.strategy_id != parent.strategy_id]
FilterOut(seq, parent) ==
  IF seq = << >> THEN << >>
  ELSE (IF Head(seq) # parent THEN << Head(seq) >> ELSE << >>) \o FilterOut(Tail(seq), parent)

\* BestCousins without the [:num_best] truncation
BestCousins_untruncated(strats, island, parent, num_best) ==
  LET best_strategies == get_best_strategies(strats, island, num_best * 2)
  IN  IF best_strategies # << >>
        THEN FilterOut(best_strategies, parent)
        ELSE << >>

\* the best cousins of sample_cousins (evolutionary_database.py:234-238)
BestCousins(strats, island, parent, num_best) ==
  LET best_strategies == get_best_strategies(strats, island, num_best * 2)
  IN  IF best_strategies # << >>
        THEN Take(FilterOut(best_strategies, parent), num_best)
        ELSE << >>

RECURSIVE Log2Floor(_)
Log2Floor(n) == IF n <= 1 THEN 0 ELSE 1 + Log2Floor(n \div 2)

RECURSIVE Pow2(_)
Pow2(b) == IF b = 0 THEN 1 ELSE 2 * Pow2(b - 1)

\* val ^ (1 << bit_pos)
FlipBit(val, bit_pos) ==
  IF (val \div Pow2(bit_pos)) % 2 = 1 THEN val - Pow2(bit_pos) ELSE val + Pow2(bit_pos)

RECURSIVE FlipSet(_, _, _)
\* the values num_flips random bit flips can turn val into
FlipSet(val, num_bits, num_flips) ==
  IF num_flips = 0 THEN { val }
  ELSE UNION { FlipSet(FlipBit(val, b), num_bits, num_flips - 1) : b \in 0 .. (num_bits - 1) }

\* the values one perturbation can give coordinate i; bitflip_pct is the
\* bitflip_rate in percent.  A Gaussian draw (sigma > 0) floored and clipped
\* to 0 .. bins-1 can give every bin.
PerturbDim(dim, parent_val, bitflip_pct) ==
  IF dim.type = "continuous" THEN 0 .. (dim.bins - 1)
  ELSE IF dim.type = "binary"
    THEN LET num_bits == IF dim.bins > 1 THEN Log2Floor(dim.bins) ELSE 1
             num_flips == Max(1, (num_bits * bitflip_pct) \div 100)
         IN  { v % dim.bins : v \in FlipSet(parent_val, num_bits, num_flips) }
  ELSE { parent_val }

RECURSIVE PerturbPrefix(_, _, _)
\* the first n coordinates of the vectors one perturbation can give
PerturbPrefix(parent_vector, bitflip_pct, n) ==
  IF n = 0 THEN { << >> }
  ELSE { Append(p, x) : p \in PerturbPrefix(parent_vector, bitflip_pct, n - 1),
                        x \in PerturbDim(Dimensions[n], parent_vector[n], bitflip_pct) }

PerturbSet(parent_vector, bitflip_pct) ==
  PerturbPrefix(parent_vector, bitflip_pct, Len(Dimensions))

\* one attempt of the loop of _sample_diverse_cousins that looks up `perturbed`
DiverseAttempt(db, cousins, perturbed) ==
  LET strategy == FeatureMap_get(db, perturbed)
  IN  IF strategy # None /\ strategy \notin Range(cousins)
        THEN Append(cousins, strategy)
        ELSE cousins

RECURSIVE DiverseLoop(_, _, _, _, _)
\* the lists `cousins` can be after the remaining attempts, from the lists in acc
DiverseLoop(db, targets, num_samples, attempts, acc) ==
  IF attempts = 0 THEN acc
  ELSE DiverseLoop(db, targets, num_samples, attempts - 1,
         UNION { IF Len(c) >= num_samples THEN { c }
                 ELSE { DiverseAttempt(db, c, t) : t \in targets } : c \in acc })

\* the possible results of _sample_diverse_cousins
_sample_diverse_cousins(db, parent_vector, num_samples, bitflip_pct) ==
  { Take(c, num_samples) :
      c \in DiverseLoop(db, PerturbSet(parent_vector, bitflip_pct), num_samples,
                        num_samples * 3, { << >> }) }

\* the possible results of np.random.choice(population, size, replace=False)
RandomChoice(population, size) ==
  { [j \in 1 .. size |-> population[f[j]]] :
      f \in { g \in [1 .. size -> 1 .. Len(population)] :
                \A a, b \in 1 .. size : a # b => g[a] # g[b] } }

\* the possible random cousins of sample_cousins (evolutionary_database.py:251-258)
RandomCousins(island, parent, num_random) ==
  LET population == FilterOut(island.population, parent)
  IN  IF population # << >>
        THEN RandomChoice(population, Min(num_random, Len(population)))
        ELSE { << >> }

\* the possible results of sample_cousins, part by part
sample_cousins(db, parent, island_id, num_best, num_diverse, num_random, bitflip_pct) ==
  LET island == db.islands[island_id + 1]
      best == BestCousins(db.strategies, island, parent, num_best)
      diverse == IF db.strategies[parent].feature_vector # NoVector
                   THEN _sample_diverse_cousins(db, db.strategies[parent].feature_vector,
                                                num_diverse, bitflip_pct)
                   ELSE { << >> }
  IN  { [best |-> best, diverse |-> d, random |-> r] :
          d \in diverse, r \in RandomCousins(island, parent, num_random) }

(***************************************************************************)
(* Statistics and persistence (get_statistics, save, load)                 *)
(***************************************************************************)
RECURSIVE Stride(_)
\* the number of cells one step along axis d of the archive skips
Stride(d) == IF d = Len(Dimensions) THEN 1 ELSE Dimensions[d + 1].bins * Stride(d + 1)

\* the i-th index tuple np.ndindex(self.archive.shape) yields, counted from 0
NdIndex(i) == [d \in DimIdx |-> (i \div Stride(d)) % Dimensions[d].bins]

\* FeatureMap.get_all_strategies: the occupants in np.ndindex order
get_all_strategies(db) ==
  LET all == [i \in 1 .. ShapeProduct(Len(Dimensions)) |-> db.archive[NdIndex(i - 1)]]
  IN  SelectSeq(all, LAMBDA strat : strat # None)

RECURSIVE SumSeq(_)
SumSeq(seq) == IF seq = << >> THEN 0 ELSE Head(seq) + SumSeq(Tail(seq))

RECURSIVE MaxSeq(_)
MaxSeq(seq) == IF Len(seq) = 1 THEN seq[1] ELSE Max(Head(seq), MaxSeq(Tail(seq)))

RECURSIVE MinSeq(_)
MinSeq(seq) == IF Len(seq) = 1 THEN seq[1] ELSE Min(Head(seq), MinSeq(Tail(seq)))

\* np.argmax(scores): the first position of the maximum
ArgMax(seq) == CHOOSE i \in 1 .. Len(seq) :
                 /\ seq[i] = MaxSeq(seq)
                 /\ \A j \in 1 .. (i - 1) : seq[j] # MaxSeq(seq)

\* np.mean(scores) as the fraction sum / count
Mean(scores) == [sum |-> SumSeq(scores), count |-> Len(scores)]

\* np.std(scores), given by the count, the sum and the sum of squares it is
\* computed from
Std(scores) == [count |-> Len(scores), sum |-> SumSeq(scores),
                sum_squares |-> SumSeq([i \in 1 .. Len(scores) |-> scores[i] * scores[i]])]

\* FeatureMap.get_statistics
FeatureMap_get_statistics(db) ==
  LET strats == get_all_strategies(db)
      scores == [i \in 1 .. Len(strats) |-> db.strategies[strats[i]].combined_score]
  IN  IF strats = << >>
        THEN [ num_strategies |-> 0, coverage |-> [num |-> 0, den |-> 1],
               num_added |-> db.num_added, num_rejected |-> db.num_rejected,
               num_improved |-> db.num_improved ]
        ELSE [ num_strategies |-> Len(strats), coverage |-> get_coverage(db),
               num_added |-> db.num_added, num_rejected |-> db.num_rejected,
               num_improved |-> db.num_improved,
               mean_score |-> Mean(scores), max_score |-> MaxSeq(scores),
               min_score |-> MinSeq(scores), std_score |-> Std(scores) ]

\* the island_stats dictionary of one island
IslandStatistics(db, island) ==
  LET base == [ id |-> island.island_id, category |-> island.category,
                population_size |-> Len(island.population),
                map_size |-> Len(island.strategies_on_map) ]
      scores == [i \in 1 .. Len(island.strategies_on_map) |->
                   db.strategies[island.strategies_on_map[i]].combined_score]
  IN  IF island.strategies_on_map # << >>
        THEN [ id |-> base.id, category |-> base.category,
               population_size |-> base.population_size, map_size |-> base.map_size,
               mean_score |-> Mean(scores), max_score |-> MaxSeq(scores),
               best_strategy_id |-> island.strategies_on_map[ArgMax(scores)] ]
        ELSE base

\* the database object the orchestrator holds: the feature map, the islands,
\* the rejected archive, the insights and the generation counter
Database == [ db |-> DB, insights |-> insights, current_generation |-> current_generation ]

\* EvolutionaryDatabase.get_statistics
get_statistics(o) ==
  [ generation |-> o.current_generation,
    num_islands |-> Len(o.db.islands),
    total_strategies |-> SumSeq([k \in 1 .. Len(o.db.islands) |-> Len(o.db.islands[k].population)]),
    total_on_map |-> SumSeq([k \in 1 .. Len(o.db.islands) |-> Len(o.db.islands[k].strategies_on_map)]),
    total_rejected |-> Len(o.db.rejected_archive),
    num_insights |-> Len(o.insights),
    feature_map |-> FeatureMap_get_statistics(o.db),
    islands |-> [k \in 1 .. Len(o.db.islands) |-> IslandStatistics(o.db, o.db.islands[k])] ]

\* the Strategy objects the attributes of the FeatureMap refer to
FeatureMapObjects(db) == { db.archive[c] : c \in Cells } \ { None }

\* the Strategy objects the attributes of the EvolutionaryDatabase refer to
DatabaseObjects(db) ==
  FeatureMapObjects(db)
    \cup UNION { Range(db.islands[k].population) : k \in 1 .. Len(db.islands) }
    \cup UNION { Range(db.islands[k].strategies_on_map) : k \in 1 .. Len(db.islands) }
    \cup Range(db.rejected_archive)

\* pickle.dump(self, f) of FeatureMap.save: the attributes of the feature map
\* and the objects reachable from them
FeatureMap_pickle_dump(db) ==
  [ dimensions |-> Dimensions, archive |-> db.archive, num_added |-> db.num_added,
    num_rejected |-> db.num_rejected, num_improved |-> db.num_improved,
    objects |-> [sid \in FeatureMapObjects(db) |-> db.strategies[sid]] ]

\* pickle.dump(self, f) that leaves out the insights
pickle_dump_without_insights(o) ==
  [ feature_map |-> [ dimensions |-> Dimensions, archive |-> o.db.archive,
                      num_added |-> o.db.num_added, num_rejected |-> o.db.num_rejected,
                      num_improved |-> o.db.num_improved ],
    num_islands |-> num_islands, categories |-> categories,
    islands |-> o.db.islands, rejected_archive |-> o.db.rejected_archive,
    insights |-> << >>, current_generation |-> o.current_generation,
    objects |-> [sid \in DatabaseObjects(o.db) |-> o.db.strategies[sid]] ]

\* pickle.dump(self, f) of EvolutionaryDatabase.save: the attributes of the
\* database and every object reachable from them, each written once
pickle_dump(o) ==
  [ feature_map |-> [ dimensions |-> Dimensions, archive |-> o.db.archive,
                      num_added |-> o.db.num_added, num_rejected |-> o.db.num_rejected,
                      num_improved |-> o.db.num_improved ],
    num_islands |-> num_islands, categories |-> categories,
    islands |-> o.db.islands, rejected_archive |-> o.db.rejected_archive,
    insights |-> o.insights, current_generation |-> o.current_generation,
    objects |-> [sid \in DatabaseObjects(o.db) |-> o.db.strategies[sid]] ]

\* an object no attribute refers to any more
Unreachable == [ unreachable |-> TRUE ]

\* pickle.load(f) of EvolutionaryDatabase.load: the database rebuilt from the
\* written attributes and objects; an object that was not written is gone
pickle_load(data) ==
  LET ids == DOMAIN data.objects
      last == IF ids = {} THEN 0 ELSE CHOOSE i \in ids : \A j \in ids : j <= i
  IN  [ db |-> [ strategies |-> [i \in 1 .. last |->
                                   IF i \in ids THEN data.objects[i] ELSE Unreachable],
                 archive |-> data.feature_map.archive,
                 num_added |-> data.feature_map.num_added,
                 num_rejected |-> data.feature_map.num_rejected,
                 num_improved |-> data.feature_map.num_improved,
                 islands |-> data.islands,
                 rejected_archive |-> data.rejected_archive ],
        insights |-> data.insights,
        current_generation |-> data.current_generation ]

\* a file of the checkpoint directory: missing, cut short, or whole
Absent == [ state |-> "absent" ]

Partial == [ state |-> "partial" ]

Complete(data) == [ state |-> "complete", data |-> data ]

\* the checkpoint directory: evolutionary_database.pkl and feature_map.pkl
NoFiles == [ db |-> Absent, fm |-> Absent ]

\* how far a save gets before the file system fails it, if it does
SaveOutcomes ==
  { "ok", "mkdir_failed", "database_write_failed", "feature_map_open_failed",
    "feature_map_write_failed" }

\* EvolutionaryDatabase.save(directory): mkdir, then open(..., 'wb') and
\* pickle.dump for evolutionary_database.pkl, then FeatureMap.save for
\* feature_map.pkl; open(..., 'wb') truncates the file it opens
save(dir, o, outcome) ==
  IF outcome = "mkdir_failed"
    THEN [files |-> dir, raised |-> "OSError"]
  ELSE IF outcome = "database_write_failed"
    THEN [files |-> [dir EXCEPT !.db = Partial], raised |-> "OSError"]
  ELSE IF outcome = "feature_map_open_failed"
    THEN [files |-> [dir EXCEPT !.db = Complete(pickle_dump(o))], raised |-> "OSError"]
  ELSE IF outcome = "feature_map_write_failed"
    THEN [files |-> [dir EXCEPT !.db = Complete(pickle_dump(o)), !.fm = Partial],
          raised |-> "OSError"]
  ELSE [files |-> [db |-> Complete(pickle_dump(o)),
                   fm |-> Complete(FeatureMap_pickle_dump(o.db))],
        raised |-> ""]

\* EvolutionaryDatabase.load(directory): reads evolutionary_database.pkl only
load(dir) ==
  IF dir.db.state = "absent" THEN [ret |-> None, raised |-> "FileNotFoundError"]
  ELSE IF dir.db.state = "partial" THEN [ret |-> None, raised |-> "UnpicklingError"]
  ELSE [ret |-> pickle_load(dir.db.data), raised |-> ""]

(***************************************************************************)
(* The state machine                                                       *)
(***************************************************************************)
Init ==
  /\ strategies = << >>
  /\ archive = [c \in Cells |-> None]
  /\ num_added = 0
  /\ num_rejected = 0
  /\ num_improved = 0
  /\ islands = << >>
  /\ rejected_archive = << >>
  /\ insights = << >>
  /\ current_generation = 0
  /\ call = NoCall
  /\ files = NoFiles

\* initialize_islands(seed_strategies) with one freshly built seed per island
InitializeIslands ==
  /\ Len(strategies) + num_islands <= MaxStrategies
  /\ \E ms \in [1 .. num_islands -> MetricsInputs] :
       LET base == Len(strategies)
           seeds == [j \in 1 .. num_islands |-> Strategy(ms[j], 0, j - 1)]
           ids == [j \in 1 .. num_islands |-> base + j]
           r == initialize_islands([DB EXCEPT !.strategies = @ \o seeds], ids)
       IN  /\ SetDB(r.db)
           /\ call' = [NoCall EXCEPT !.op = "initialize_islands", !.raised = r.raised]
  /\ UNCHANGED <<insights, current_generation, files>>

\* initialize_islands with a seed list of the wrong length
InitializeIslandsMismatch ==
  /\ \E n \in {num_islands - 1, num_islands + 1} :
       LET r == initialize_islands(DB, [j \in 1 .. n |-> None])
       IN  /\ SetDB(r.db)
           /\ call' = [NoCall EXCEPT !.op = "initialize_islands", !.raised = r.raised]
  /\ UNCHANGED <<insights, current_generation, files>>

\* initialize_islands called again with the seed list of the first call
InitializeIslandsAgain ==
  /\ Len(islands) >= num_islands
  /\ Len(islands) + num_islands <= MaxIslands
  /\ LET ids == [j \in 1 .. num_islands |-> islands[j].population[1]]
         r == initialize_islands(DB, ids)
     IN  /\ SetDB(r.db)
         /\ call' = [NoCall EXCEPT !.op = "initialize_islands", !.raised = r.raised]
  /\ UNCHANGED <<insights, current_generation, files>>

\* add_strategy(strategy, island_id) with a freshly built strategy
AddStrategy ==
  /\ Len(strategies) < MaxStrategies
  /\ \E island_id \in 0 .. (Len(islands) - 1), m \in MetricsInputs :
       LET sid == Len(strategies) + 1
           s == Strategy(m, current_generation, island_id)
           r == add_strategy([DB EXCEPT !.strategies = Append(@, s)], sid, island_id)
       IN  /\ Len(islands[island_id + 1].population) < MaxPopulation
           /\ SetDB(r.db)
           /\ call' = [NoCall EXCEPT !.op = "add_strategy", !.island_id = island_id,
                                     !.strategy = sid, !.added = r.ret,
                                     !.raised = r.raised]
  /\ UNCHANGED <<insights, current_generation, files>>

\* migrate_strategies(num_migrants)
MigrateStrategies ==
  /\ islands # << >>
  /\ \E num_migrants \in {1, 5} :
       LET db == migrate_strategies(DB, num_migrants)
       IN  /\ \A k \in 1 .. Len(db.islands) : Len(db.islands[k].population) <= MaxPopulation
           /\ SetDB(db)
           /\ call' = [NoCall EXCEPT !.op = "migrate_strategies",
                                     !.num_migrants = num_migrants]
  /\ UNCHANGED <<insights, current_generation, files>>

\* migrate_strategies(num_migrants) between the islands a repeated
\* initialize_islands left: every population may take one migrant from each
\* of the other islands
MigrateStrategiesAcross ==
  /\ islands # << >>
  /\ \E num_migrants \in {1, 5} :
       LET db == migrate_strategies(DB, num_migrants)
       IN  /\ \A k \in 1 .. Len(db.islands) :
                Len(db.islands[k].population) <= MaxMigratedPopulation
           /\ SetDB(db)
           /\ call' = [NoCall EXCEPT !.op = "migrate_strategies",
                                     !.num_migrants = num_migrants]
  /\ UNCHANGED <<insights, current_generation, files>>

\* evolve_generation: self.evol_db.current_generation = generation
AdvanceGeneration ==
  /\ current_generation < MaxGeneration
  /\ current_generation' = current_generation + 1
  /\ call' = [NoCall EXCEPT !.op = "set_generation"]
  /\ UNCHANGED <<strategies, archive, num_added, num_rejected, num_improved,
                 islands, rejected_archive, insights, files>>

\* add_insight(insight) for an insight dictionary built by the caller
AddInsight ==
  /\ Len(insights) < MaxInsights
  /\ \E g \in 0 .. MaxGeneration :
       LET insight == [content |-> "consider a novel volume filter", generation |-> g,
                       island_id |-> 0]
       IN  insights' = add_insight(insights, insight, current_generation)
  /\ call' = [NoCall EXCEPT !.op = "add_insight"]
  /\ UNCHANGED <<strategies, archive, num_added, num_rejected, num_improved,
                 islands, rejected_archive, current_generation, files>>

\* the (num_best, num_diverse, num_random) a caller passes: none, those of
\* examples/run_mini_test.py:121, and the defaults main.py:200 ends up with
CousinArgs == { <<0, 0, 0>>, <<1, 1, 1>>, <<2, 3, 2>> }

\* bitflip_rate in percent: the default 0.25 and 1.0
BitflipRates == { 25, 100 }

\* sample_cousins(parent, island_id, ...) for a parent drawn from the island.
\* Sampling changes nothing but the recorded call, so sampling again right
\* after a sampling reaches no state the first did not (the reachable states
\* are the same with and without the first conjunct): it is left out.
SampleCousins ==
  /\ call.op # "sample_cousins"
  /\ \E island_id \in 0 .. (Len(islands) - 1) :
       \E parent \in Range(islands[island_id + 1].population),
          args \in CousinArgs, bitflip_pct \in BitflipRates :
         \E r \in sample_cousins(DB, parent, island_id, args[1], args[2], args[3], bitflip_pct) :
           call' = [NoCall EXCEPT !.op = "sample_cousins", !.island_id = island_id,
                                  !.strategy = parent, !.num_best = args[1],
                                  !.num_diverse = args[2], !.num_random = args[3],
                                  !.bitflip_pct = bitflip_pct,
                                  !.best = r.best, !.diverse = r.diverse,
                                  !.random = r.random]
  /\ UNCHANGED <<strategies, archive, num_added, num_rejected, num_improved,
                 islands, rejected_archive, insights, current_generation, files>>

(***************************************************************************)
(* The generation loop (main.py) and the collaborators it calls            *)
(***************************************************************************)
\* evolution.alpha in percent, evolution.migration_interval and
\* evolution.insight_curation_interval as a configuration sets them
config_alpha == 50

migration_interval == 1

insight_curation_interval == 1

\* CodingTeam._get_failure_metrics
_get_failure_metrics ==
  [ sharpe_ratio |-> -1, sortino_ratio |-> -1, information_ratio |-> -1,
    total_return |-> -50, max_drawdown |-> -75, trading_frequency |-> 0,
    win_rate |-> 0, profit_factor |-> 0, strategy_category_bin |-> 1 ]

\* metrics a backtest returns: a strategy that trades 60 times and one that
\* trades 3 times in the backtest period
BacktestResults ==
  { [ sharpe_ratio |-> 2, sortino_ratio |-> 2, information_ratio |-> 1, total_return |-> 10,
      max_drawdown |-> -1, trading_frequency |-> 60, strategy_category_bin |-> 1 ],
    [ sharpe_ratio |-> 1, sortino_ratio |-> 1, information_ratio |-> 0, total_return |-> 5,
      max_drawdown |-> -2, trading_frequency |-> 3, strategy_category_bin |-> 1 ] }

\* the outcomes of ResearchAgent.generate_hypothesis: a text, or the error the
\* LLM client re-raises after its retries
generate_hypothesis == { [raised |-> ""], [raised |-> "RequestException"] }

\* the outcomes of CodingTeam.implement_strategy: the LLM call of
\* _generate_code or _debug_code raises, a backtest succeeds, or the backtest
\* fails max_iterations times (or there is no engine) and the failure metrics
\* are returned
implement_strategy ==
  { [metrics |-> << >>, failed |-> FALSE, raised |-> "RequestException"] }
    \cup { [metrics |-> m, failed |-> FALSE, raised |-> ""] : m \in BacktestResults }
    \cup { [metrics |-> _get_failure_metrics, failed |-> TRUE, raised |-> ""] }

\* MIN_TRADES_PER_YEAR_BY_CATEGORY['default'] and the default backtest_years
min_trades_threshold == 10

backtest_years == 3

\* the insights of the over-filtered analysis (evaluation_team.py:103-107)
OverfilterInsights(trading_frequency) ==
  << IF trading_frequency = 0 THEN "Over-filtering: Only 0 trades in 3.0 years"
     ELSE "Over-filtering: Only 3 trades in 3.0 years",
     "High metrics with low trade count are statistically unreliable",
     "Need to relax filter conditions to generate sufficient signals" >>

\* category integers parsed from an LLM response
LLMCategoryBins == { 2 }

\* the outcomes of EvaluationTeam.analyze_strategy(metrics): the fixed
\* 'rejected' analysis when trades per year are below the threshold, otherwise
\* the parsed LLM response or the error of the LLM call
analyze_strategy(metrics) ==
  LET trading_frequency == Get(metrics, "trading_frequency", 0)
  IN  IF trading_frequency < min_trades_threshold * backtest_years
        THEN { [category_bin |-> 9999, insights |-> OverfilterInsights(trading_frequency),
                raised |-> ""] }
        ELSE { [category_bin |-> 0, insights |-> << >>, raised |-> "RequestException"] }
               \cup { [category_bin |-> c, insights |-> ins, raised |-> ""] :
                        c \in { Get(metrics, "strategy_category_bin", 1) } \cup LLMCategoryBins,
                        ins \in { << >>, << "consider a novel volume filter" >> } }

\* the loop of main.py:270-277 over the insight texts of an analysis: one
\* add_insight per text, in order
AddInsights(log, texts, generation, island_id, sid, generation_now) ==
  log \o [i \in 1 .. Len(texts) |->
            add_insight(<< >>, [content |-> texts[i], generation |-> generation,
                                island_id |-> island_id, strategy_id |-> sid],
                        generation_now)[1]]

\* what evolve_island leaves when an exception ends it, or when it returns early
Abandoned(db, log, raised, failure) ==
  [db |-> db, insights |-> log, strategy |-> None, added |-> FALSE, raised |-> raised,
   failure |-> failure]

\* evolve_island from the implementation on, for one outcome of implement_strategy
EvolveWith(db, log, island_id, generation, generation_now, impl) ==
  IF impl.raised # ""
    THEN { Abandoned(db, log, impl.raised, "code") }
    ELSE { IF a.raised # ""
             THEN Abandoned(db, log, a.raised, "evaluation")
             ELSE LET metrics == [impl.metrics EXCEPT !.strategy_category_bin = a.category_bin]
                      sid == Len(db.strategies) + 1
                      r == add_strategy([db EXCEPT !.strategies =
                                           Append(@, Strategy(metrics, generation, island_id))],
                                        sid, island_id)
                  IN  IF r.raised # ""
                        THEN [db |-> r.db, insights |-> log, strategy |-> sid,
                              added |-> FALSE, raised |-> r.raised,
                              failure |-> IF impl.failed THEN "backtest" ELSE ""]
                        ELSE [db |-> r.db,
                              insights |-> AddInsights(log, a.insights, generation, island_id,
                                                       sid, generation_now),
                              strategy |-> sid, added |-> r.ret, raised |-> "",
                              failure |-> IF impl.failed THEN "backtest" ELSE ""]
           : a \in analyze_strategy(impl.metrics) }

\* QuantEvolve.evolve_island: the states it can leave.  sample_cousins and
\* get_recent_insights only read the database; their results go to the LLM.
evolve_island(db, log, island_id, generation, generation_now) ==
  LET parents == UNION { sample_parent(db, island_id, config_alpha, u) : u \in RandomDraws }
  IN  UNION { IF parent.strategy = None
                THEN { Abandoned(db, log, "", "") }
                ELSE UNION { IF h.raised # ""
                               THEN { Abandoned(db, log, h.raised, "hypothesis") }
                               ELSE UNION { EvolveWith(db, log, island_id, generation,
                                                       generation_now, impl) :
                                              impl \in implement_strategy }
                             : h \in generate_hypothesis }
              : parent \in parents }

\* the insights of the log that carry (keep = TRUE) or do not carry the island id
InsightsOfIsland(log, island_id, keep) ==
  SelectSeq(log, LAMBDA insight : (Get(insight, "island_id", None) = island_id) = keep)

\* how many insights _parse_curated_insights finds in an LLM response: none,
\* the 50 asked for, or more than were asked for
CuratedCounts == { 0, 50, 60 }

\* an insight as _parse_curated_insights builds it
ParsedInsight == [ content |-> "curated insight", theme |-> "General",
                   actionability |-> "Medium" ]

\* the outcomes of EvaluationTeam.curate_insights(insights, category, 50):
\* the list given when it holds at most 50 insights, otherwise what is parsed
\* from the LLM response, or the error of the LLM call
CuratedByTeam(island_insights) ==
  IF Len(island_insights) <= 50
    THEN { [curated |-> island_insights, raised |-> ""] }
    ELSE { [curated |-> [i \in 1 .. n |-> ParsedInsight], raised |-> ""] :
             n \in CuratedCounts }
           \cup { [curated |-> << >>, raised |-> "RequestException"] }

\* curated_insight['island_id'] = island.island_id for each curated insight
StampIsland(curated, island_id) ==
  [i \in 1 .. Len(curated) |->
     [key \in DOMAIN curated[i] \cup {"island_id"} |->
        IF key = "island_id" THEN island_id ELSE curated[i][key]]]

RECURSIVE QuantEvolve_curate_insights(_, _, _)
\* QuantEvolve.curate_insights: the logs it can leave, from island position k
\* on, and the exception that ended it, if one did
QuantEvolve_curate_insights(log, isls, k) ==
  IF k > Len(isls) THEN { [log |-> log, raised |-> ""] }
  ELSE LET island_insights == InsightsOfIsland(log, isls[k].island_id, TRUE)
       IN  IF Len(island_insights) > 100
             THEN UNION { IF c.raised # ""
                            THEN { [log |-> log, raised |-> c.raised] }
                            ELSE QuantEvolve_curate_insights(
                                   InsightsOfIsland(log, isls[k].island_id, FALSE)
                                     \o StampIsland(c.curated, isls[k].island_id),
                                   isls, k + 1)
                          : c \in CuratedByTeam(island_insights) }
             ELSE QuantEvolve_curate_insights(log, isls, k + 1)

\* NextIslandStep of a loop that tries an island again after an exception
NextIslandStep_retrying(c) ==
  IF c.op = "initialize_islands" /\ c.raised = ""
    THEN [more |-> TRUE, island_id |-> 0, generation |-> 0]
  ELSE IF c.op = "evolve_island" /\ c.raised # ""
    THEN [more |-> TRUE, island_id |-> c.island_id, generation |-> c.generation]
  ELSE IF c.op = "evolve_island" /\ c.island_id + 1 < num_islands
    THEN [more |-> TRUE, island_id |-> c.island_id + 1, generation |-> c.generation]
  ELSE IF c.op = "evolve_generation" /\ c.raised = "" /\ c.generation < MaxGeneration
    THEN [more |-> TRUE, island_id |-> 0, generation |-> c.generation + 1]
  ELSE [more |-> FALSE, island_id |-> 0, generation |-> 0]

\* the island and generation the loops of run and evolve_generation reach
\* next, after the step recorded in c; `more` is FALSE when there is none
NextIslandStep(c) ==
  IF c.op = "initialize_islands" /\ c.raised = ""
    THEN [more |-> TRUE, island_id |-> 0, generation |-> 0]
  ELSE IF c.op = "evolve_island" /\ c.island_id + 1 < num_islands
    THEN [more |-> TRUE, island_id |-> c.island_id + 1, generation |-> c.generation]
  ELSE IF c.op = "evolve_generation" /\ c.raised = "" /\ c.generation < MaxGeneration
    THEN [more |-> TRUE, island_id |-> 0, generation |-> c.generation + 1]
  ELSE [more |-> FALSE, island_id |-> 0, generation |-> 0]

\* one pass of the loop of evolve_generation: evolve_island under try/except
EvolveIsland ==
  /\ Len(islands) = num_islands
  /\ NextIslandStep(call).more
  /\ LET island_id == NextIslandStep(call).island_id
         generation == NextIslandStep(call).generation
     IN  \E r \in evolve_island(DB, insights, island_id, generation, current_generation) :
           /\ r.strategy # None =>
                /\ Len(strategies) < MaxStrategies
                /\ Len(islands[island_id + 1].population) < MaxPopulation
           /\ SetDB(r.db)
           /\ insights' = r.insights
           /\ call' = [NoCall EXCEPT !.op = "evolve_island", !.island_id = island_id,
                                     !.generation = generation, !.strategy = r.strategy,
                                     !.added = r.added, !.raised = r.raised,
                                     !.failure = r.failure]
  /\ UNCHANGED <<current_generation, files>>

\* the rest of evolve_generation after the loop over the islands
FinishGeneration ==
  /\ call.op = "evolve_island" /\ call.island_id = num_islands - 1
  /\ LET generation == call.generation
         db == IF generation > 0 /\ generation % migration_interval = 0
                 THEN migrate_strategies(DB, 5) ELSE DB
     IN  /\ \A k \in 1 .. Len(db.islands) : Len(db.islands[k].population) <= MaxPopulation
         /\ SetDB(db)
         /\ current_generation' = generation
         /\ \E r \in (IF generation > 0 /\ generation % insight_curation_interval = 0
                         THEN QuantEvolve_curate_insights(insights, islands, 1)
                         ELSE { [log |-> insights, raised |-> ""] }) :
              /\ insights' = r.log
              /\ call' = [NoCall EXCEPT !.op = "evolve_generation",
                                        !.generation = generation, !.raised = r.raised]
  /\ UNCHANGED files

\* how many insights one analysis yields
InsightBatches == { 50, 51 }

\* the insight loop of evolve_island (main.py:273-279) for an analysis of the
\* island's newest strategy that yields a batch of insights
ExtractInsights ==
  /\ \E island_id \in 0 .. (Len(islands) - 1), n \in InsightBatches :
       /\ Len(insights) + n <= MaxExtractedLog
       /\ LET population == islands[island_id + 1].population
          IN  insights' = AddInsights(insights,
                                      [i \in 1 .. n |-> "consider a novel volume filter"],
                                      current_generation, island_id,
                                      population[Len(population)], current_generation)
       /\ call' = [NoCall EXCEPT !.op = "extract_insights", !.island_id = island_id]
  /\ UNCHANGED <<strategies, archive, num_added, num_rejected, num_improved,
                 islands, rejected_archive, current_generation, files>>

\* QuantEvolve.curate_insights(), the curation step of evolve_generation
CurateIslandInsights ==
  /\ islands # << >>
  /\ \E r \in QuantEvolve_curate_insights(insights, islands, 1) :
       /\ insights' = r.log
       /\ call' = [NoCall EXCEPT !.op = "QuantEvolve.curate_insights", !.raised = r.raised]
  /\ UNCHANGED <<strategies, archive, num_added, num_rejected, num_improved,
                 islands, rejected_archive, current_generation, files>>

\* add_insight(insight) for the texts of InsightContents
AddInsightText ==
  /\ Len(insights) < MaxLog
  /\ \E content \in InsightContents :
       LET insight == [content |-> content, generation |-> current_generation,
                       island_id |-> 0]
       IN  insights' = add_insight(insights, insight, current_generation)
  /\ call' = [NoCall EXCEPT !.op = "add_insight"]
  /\ UNCHANGED <<strategies, archive, num_added, num_rejected, num_improved,
                 islands, rejected_archive, current_generation, files>>

\* the n a caller passes to get_recent_insights: none, one, more than the log
\* can hold, and the default
RecentCounts == { 0, 1, 2, 50 }

\* get_recent_insights(n)
GetRecentInsights ==
  /\ \E n \in RecentCounts :
       call' = [NoCall EXCEPT !.op = "get_recent_insights", !.n = n,
                              !.recent = get_recent_insights(insights, n)]
  /\ UNCHANGED <<strategies, archive, num_added, num_rejected, num_improved,
                 islands, rejected_archive, insights, current_generation, files>>

\* the max_insights a caller passes
Caps == { 0, 1, 2 }

\* curate_insights(max_insights)
CurateInsights ==
  /\ \E max_insights \in Caps :
       LET r == curate_insights(insights, max_insights, current_generation)
       IN  /\ insights' = r.result
           /\ call' = [NoCall EXCEPT !.op = "curate_insights",
                                     !.max_insights = max_insights,
                                     !.curated = r.curated, !.selected = r.diverse]
  /\ UNCHANGED <<strategies, archive, num_added, num_rejected, num_improved,
                 islands, rejected_archive, current_generation, files>>

\* sample_parent(island_id, alpha)
SampleParent ==
  /\ \E island_id \in 0 .. (Len(islands) - 1), alpha \in Alphas, u \in RandomDraws :
       \E r \in sample_parent(DB, island_id, alpha, u) :
         call' = [NoCall EXCEPT !.op = "sample_parent", !.island_id = island_id,
                                !.alpha = alpha, !.source = r.source,
                                !.strategy = r.strategy]
  /\ UNCHANGED <<strategies, archive, num_added, num_rejected, num_improved,
                 islands, rejected_archive, insights, current_generation, files>>

\* save(directory) into a checkpoint directory that holds no file yet
\* (save_checkpoint names one directory per checkpoint, main.py)
Save ==
  /\ files = NoFiles
  /\ \E outcome \in SaveOutcomes :
       LET r == save(files, Database, outcome)
       IN  /\ files' = r.files
           /\ call' = [NoCall EXCEPT !.op = "save", !.raised = r.raised]
  /\ UNCHANGED <<strategies, archive, num_added, num_rejected, num_improved,
                 islands, rejected_archive, insights, current_generation>>

\* db = EvolutionaryDatabase.load(directory), the loaded database taking the
\* place of the one in use
Load ==
  /\ LET r == load(files)
     IN  /\ call' = [NoCall EXCEPT !.op = "load", !.raised = r.raised]
         /\ IF r.raised = ""
              THEN /\ SetDB(r.ret.db)
                   /\ insights' = r.ret.insights
                   /\ current_generation' = r.ret.current_generation
              ELSE UNCHANGED <<strategies, archive, num_added, num_rejected, num_improved,
                               islands, rejected_archive, insights, current_generation>>
  /\ UNCHANGED files

Next ==
  \/ InitializeIslands
  \/ InitializeIslandsMismatch
  \/ AddStrategy
  \/ MigrateStrategies
  \/ AdvanceGeneration
  \/ AddInsight

Spec == Init /\ [][Next]_vars

NextCousins ==
  \/ InitializeIslands
  \/ AddStrategy
  \/ MigrateStrategies
  \/ SampleCousins

SpecCousins == Init /\ [][NextCousins]_vars

NextInsights ==
  \/ AdvanceGeneration
  \/ AddInsightText
  \/ CurateInsights
  \/ GetRecentInsights

SpecInsights == Init /\ [][NextInsights]_vars

NextLoop ==
  \/ InitializeIslands
  \/ EvolveIsland
  \/ FinishGeneration

SpecLoop == Init /\ [][NextLoop]_vars

NextParent ==
  \/ InitializeIslands
  \/ AddStrategy
  \/ MigrateStrategies
  \/ SampleParent

SpecParent == Init /\ [][NextParent]_vars

NextReinit ==
  \/ InitializeIslands
  \/ InitializeIslandsAgain
  \/ AddStrategy
  \/ MigrateStrategiesAcross

SpecReinit == Init /\ [][NextReinit]_vars

NextCurate ==
  \/ InitializeIslands
  \/ ExtractInsights
  \/ CurateIslandInsights

SpecCurate == Init /\ [][NextCurate]_vars

NextPersist ==
  \/ InitializeIslands
  \/ AddStrategy
  \/ MigrateStrategies
  \/ AddInsight
  \/ Save
  \/ Load

SpecPersist == Init /\ [][NextPersist]_vars

(***************************************************************************)
(* Properties                                                              *)
(***************************************************************************)
Score(sid) == strategies[sid].combined_score

Vector(sid) == strategies[sid].feature_vector

Occupies(sid) == Vector(sid) \in Cells /\ archive[Vector(sid)] = sid

IsPrefix(s, t) == Len(s) <= Len(t) /\ SubSeq(t, 1, Len(s)) = s

Elites(k) == islands[k].strategies_on_map

Population(k) == islands[k].population

\* C1: in every step, a cell that holds a strategy still holds one afterwards,
\* the score recorded for the old occupant is not changed, and if the occupant
\* changes the new occupant's combined_score is strictly greater than the old one's.
C1_OccupantScoreNeverDecreases ==
  [][\A c \in Cells :
       archive[c] # None =>
         /\ archive'[c] # None
         /\ strategies'[archive[c]].combined_score = strategies[archive[c]].combined_score
         /\ archive'[c] # archive[c] =>
              strategies'[archive'[c]].combined_score > strategies[archive[c]].combined_score]_vars

\* a cell whose occupant was replaced by a better strategy
C1_Witness == num_improved > 0 /\ call.op = "add_strategy" /\ call.added

\* C2: an add_strategy step (the FeatureMap.add call it makes) reports accepted
\* exactly when the target cell was empty or the candidate's score is strictly
\* greater than the occupant's; when accepted the cell holds the candidate
\* afterwards, when rejected (a tie included) the archive is as it was.
C2_AddAcceptsIffEmptyOrBetter ==
  [][(call'.op = "add_strategy" /\ call'.raised = "") =>
       LET sid == call'.strategy
           cell == strategies'[sid].feature_vector
           existing == archive[cell]
           better == IF existing = None THEN TRUE
                     ELSE strategies'[sid].combined_score > strategies[existing].combined_score
       IN  /\ cell \in Cells
           /\ call'.added = better
           /\ call'.added => archive' = [archive EXCEPT ![cell] = sid]
           /\ ~call'.added => archive' = archive]_vars

\* a candidate rejected on a tie with the occupant of its cell
C2_Witness ==
  /\ call.op = "add_strategy" /\ call.raised = "" /\ ~call.added
  /\ Vector(call.strategy) \in Cells
  /\ archive[Vector(call.strategy)] # None
  /\ Score(archive[Vector(call.strategy)]) = Score(call.strategy)

\* C3: every member of every island's strategies_on_map currently occupies a
\* cell of the archive.
C3_ElitesOccupyCells ==
  \A k \in 1 .. Len(islands) : \A sid \in Range(Elites(k)) : Occupies(sid)

\* C4: every strategy handed to FeatureMap.add has a feature vector with one
\* coordinate per dimension, each in 0 .. bins-1; every occupant sits in the
\* cell its vector names; the archive is never indexed out of range.
C4_FeatureVectorInRange ==
  /\ call.raised # "IndexError"
  /\ \A sid \in 1 .. Len(strategies) :
       Vector(sid) # NoVector =>
         /\ DOMAIN Vector(sid) = DimIdx
         /\ \A i \in DimIdx : 0 <= Vector(sid)[i] /\ Vector(sid)[i] < Dimensions[i].bins
  /\ \A c \in Cells : archive[c] # None => Vector(archive[c]) = c

\* admitted: a strategy above the range maximum that lacks the category
\* metric, and one below the range minimum whose category integer exceeds the bins
C4_Witness ==
  /\ \E c \in Cells : archive[c] # None /\
        /\ Get(strategies[archive[c]].metrics, "sharpe_ratio", 0) > Dimensions[2].range[2]
        /\ "strategy_category_bin" \notin DOMAIN strategies[archive[c]].metrics
  /\ \E c \in Cells : archive[c] # None /\
        /\ Get(strategies[archive[c]].metrics, "sharpe_ratio", 0) < Dimensions[2].range[1]
        /\ Get(strategies[archive[c]].metrics, "strategy_category_bin", 0) >= Dimensions[1].bins

\* C5: no part of the result of sample_cousins contains the parent.
C5_CousinsExcludeParent ==
  call.op = "sample_cousins" =>
    call.strategy \notin (Range(call.best) \cup Range(call.diverse) \cup Range(call.random))

\* C6: sample_cousins returns at most num_best best cousins, at most
\* num_diverse diverse cousins and at most num_random random cousins, hence at
\* most num_best + num_diverse + num_random candidates.
C6_CousinsBounded ==
  call.op = "sample_cousins" =>
    /\ Len(call.best) <= call.num_best
    /\ Len(call.diverse) <= call.num_diverse
    /\ Len(call.random) <= call.num_random
    /\ Len(call.best \o call.diverse \o call.random)
         <= call.num_best + call.num_diverse + call.num_random

\* a call that truncated the best and the random cousins to the requested
\* numbers and found fewer diverse cousins than requested
C6_Witness ==
  /\ call.op = "sample_cousins" /\ call.num_best = 1
  /\ Len(FilterOut(Elites(call.island_id + 1), call.strategy)) > call.num_best
  /\ Len(FilterOut(Population(call.island_id + 1), call.strategy)) > call.num_random
  /\ Len(call.best) = call.num_best
  /\ Len(call.random) = call.num_random
  /\ Len(call.diverse) < call.num_diverse

\* C7: a migrate_strategies step changes island populations only: the
\* strategies (their generation numbers included), the archive and its
\* counters, the rejected archive, the insight log, the generation counter
\* and every island's id, category and strategies_on_map are as before.
C7_MigrateChangesPopulationsOnly ==
  [][call'.op = "migrate_strategies" =>
       /\ strategies' = strategies
       /\ archive' = archive
       /\ num_added' = num_added /\ num_rejected' = num_rejected
       /\ num_improved' = num_improved
       /\ rejected_archive' = rejected_archive
       /\ insights' = insights
       /\ current_generation' = current_generation
       /\ Len(islands') = Len(islands)
       /\ \A k \in 1 .. Len(islands) :
            islands' [k] = [islands[k] EXCEPT !.population = islands'[k].population]]_vars

\* a migration that put another island's elite, of an older generation, into
\* a population
C7_Witness ==
  /\ call.op = "migrate_strategies"
  /\ \E k \in 1 .. Len(islands) : \E sid \in Range(Population(k)) :
        /\ sid \notin Range(Elites(k))
        /\ \E j \in 1 .. Len(islands) : j # k /\ sid \in Range(Elites(j))
        /\ strategies[sid].generation < current_generation

\* C8: in every step, every island is still there and its old population is a
\* prefix of its new population.
C8_PopulationAppendOnly ==
  [][/\ Len(islands) <= Len(islands')
     /\ \A k \in 1 .. Len(islands) :
          IsPrefix(islands[k].population, islands'[k].population)]_vars

\* a population that grew by a seed, an added strategy and a migrant
C8_Witness ==
  /\ call.op = "migrate_strategies"
  /\ \E k \in 1 .. Len(islands) :
        /\ Len(Population(k)) >= 3
        /\ \E sid \in Range(Population(k)) : strategies[sid].island_id # islands[k].island_id

\* C9: an add_strategy step appends the candidate to the island's population,
\* and either returns true and appends it to the island's strategies_on_map
\* (the rejected archive unchanged) or returns false and appends it to the
\* rejected archive (strategies_on_map unchanged); no other island changes.
C9_AddStrategyEffect ==
  [][(call'.op = "add_strategy" /\ call'.raised = "") =>
       LET sid == call'.strategy
           k == call'.island_id + 1
       IN  /\ Len(islands') = Len(islands)
           /\ islands'[k].population = Append(islands[k].population, sid)
           /\ sid \notin Range(islands[k].population)
           /\ call'.added =>
                /\ islands'[k].strategies_on_map = Append(islands[k].strategies_on_map, sid)
                /\ rejected_archive' = rejected_archive
           /\ ~call'.added =>
                /\ islands'[k].strategies_on_map = islands[k].strategies_on_map
                /\ rejected_archive' = Append(rejected_archive, sid)
           /\ \A j \in 1 .. Len(islands) : j # k => islands'[j] = islands[j]]_vars

\* a candidate accepted by displacing an elite of another island
C9_Witness ==
  /\ call.op = "add_strategy" /\ call.added
  /\ \E j \in 1 .. Len(islands) :
        /\ j # call.island_id + 1
        /\ \E e \in Range(Elites(j)) : Vector(e) = Vector(call.strategy)

\* C10: right after a successful first initialize_islands every island has
\* exactly one elite, its own seed, and that seed occupies a cell.
C10_SeedsAreSoleElitesOnMap ==
  (call.op = "initialize_islands" /\ call.raised = "" /\ Len(islands) = num_islands) =>
    \A k \in 1 .. Len(islands) :
      /\ Elites(k) = << k >>
      /\ Population(k) = << k >>
      /\ Occupies(k)

\* C11: in every reachable state, initialize_islands with any number of seeds
\* other than num_islands raises ValueError and returns with the islands, the
\* archive, its counters and everything else of the database as they were.
C11_MismatchRaisesAndChangesNothing ==
  \A n \in (0 .. (num_islands + 1)) \ { num_islands } :
    LET r == initialize_islands(DB, [j \in 1 .. n |-> None])
    IN  /\ r.raised = "ValueError"
        /\ r.db.islands = islands
        /\ r.db.archive = archive
        /\ r.db.num_added = num_added
        /\ r.db.num_rejected = num_rejected
        /\ r.db.num_improved = num_improved
        /\ r.db = DB

\* a call with a wrong number of seeds made on an initialized database whose
\* archive holds strategies
C11_Witness ==
  /\ call.op = "initialize_islands" /\ call.raised = "ValueError"
  /\ Len(islands) = num_islands
  /\ num_added > 0

\* C12: a successful initialize_islands leaves exactly num_islands islands,
\* and once islands exist no step changes their number, ids or categories.
C12_IslandsCreatedOnce ==
  [][/\ (call'.op = "initialize_islands" /\ call'.raised = "") =>
          Len(islands') = num_islands
     /\ islands # << >> =>
          /\ Len(islands') = Len(islands)
          /\ \A k \in 1 .. Len(islands) :
               /\ islands'[k].island_id = islands[k].island_id
               /\ islands'[k].category = islands[k].category]_vars

\* an island built without a seed that was given the strategy sid off the map
\* (Island(island_id, category) and add_strategy(sid, on_map=False))
IslandWithoutElites(sid) ==
  [island_id |-> 0, category |-> "benchmark", population |-> << sid >>,
   strategies_on_map |-> << >>]

\* C13: sample_parent with alpha = 0 draws from the island's population and
\* with alpha = 1 from its strategies_on_map; a returned strategy is a member
\* of the list drawn from, and None is returned exactly when that list is
\* empty (also for an island whose elite list is empty while its population
\* is not).
C13_SampleParentSource ==
  /\ call.op = "sample_parent" =>
       LET island == islands[call.island_id + 1]
           chosen == IF call.source = "map" THEN island.strategies_on_map
                     ELSE island.population
       IN  /\ call.raised = ""
           /\ call.source \in { "map", "population" }
           /\ call.alpha = 0 => call.source = "population"
           /\ call.alpha = 100 => call.source = "map"
           /\ (call.strategy = None) <=> (chosen = << >>)
           /\ call.strategy # None => call.strategy \in Range(chosen)
  /\ \A sid \in 1 .. Len(strategies), u \in RandomDraws :
       LET db == [DB EXCEPT !.islands = << IslandWithoutElites(sid) >>]
       IN  /\ sample_parent(db, 0, 0, u) = { [source |-> "population", strategy |-> sid] }
           /\ sample_parent(db, 0, 100, u) = { [source |-> "map", strategy |-> None] }

\* with alpha = 0, a strategy that is in the population but not an elite was drawn
C13_Witness ==
  /\ call.op = "sample_parent" /\ call.alpha = 0
  /\ call.strategy # None
  /\ call.strategy \notin Range(Elites(call.island_id + 1))

\* C14: a curate_insights(max_insights) step leaves at most max_insights
\* insights in the log, and leaves the log as it was when it held at most
\* max_insights insights.
C14_CurateWithinCap ==
  [][call'.op = "curate_insights" =>
       /\ Len(insights') <= call'.max_insights
       /\ Len(insights) <= call'.max_insights => insights' = insights]_vars

\* Jaccard similarity of the word sets of two texts <= 0.5 (0 when there are
\* no words at all)
SimilarityAtMostHalf(content1, content2) ==
  2 * Cardinality(Words(content1) \cap Words(content2))
    <= Cardinality(Words(content1) \cup Words(content2))

\* C15: after a curation, every insight chosen by the diversity pass has
\* similarity <= 0.5 to every insight chosen before it, and when the
\* diversity pass alone reached max_insights the log is what that pass chose,
\* with every pair of its insights of similarity <= 0.5.
C15_DiversityPassPairwise ==
  (call.op = "curate_insights" /\ call.curated) =>
    /\ \A i, j \in 1 .. Len(call.selected) :
         i # j => SimilarityAtMostHalf(call.selected[i].content, call.selected[j].content)
    /\ Len(call.selected) >= call.max_insights =>
         /\ insights = call.selected
         /\ \A i, j \in 1 .. Len(insights) :
              i # j => SimilarityAtMostHalf(insights[i].content, insights[j].content)

\* a curation of three insights whose diversity pass reached the cap of 2
\* with two texts of similarity exactly 0.5
C15_Witness ==
  /\ call.op = "curate_insights" /\ call.curated /\ call.max_insights = 2
  /\ Len(call.selected) = 2
  /\ insights = call.selected
  /\ Words(insights[1].content) # { }
  /\ 2 * Cardinality(Words(insights[1].content) \cap Words(insights[2].content))
       = Cardinality(Words(insights[1].content) \cup Words(insights[2].content))

\* the metrics are the failure metrics, whatever category the analysis gave them
IsSentinel(metrics) ==
  /\ "strategy_category_bin" \in DOMAIN metrics
  /\ [metrics EXCEPT !.strategy_category_bin = 1] = _get_failure_metrics

\* C16: a candidate that carries the failure metrics is not admitted by
\* add_strategy, and no island has such a candidate among its elites.
C16_SentinelNeverAdmitted ==
  /\ (call.op = "evolve_island" /\ call.strategy # None
        /\ IsSentinel(strategies[call.strategy].metrics)) => ~call.added
  /\ \A k \in 1 .. Len(islands) : \A sid \in Range(Elites(k)) :
       ~IsSentinel(strategies[sid].metrics)

\* C17: an evolve_island step in which hypothesis generation, code
\* generation or debugging, backtesting or evaluation failed still submits a
\* candidate: the island's population grows by exactly that candidate.
C17_FailureStillYieldsCandidate ==
  [][(call'.op = "evolve_island" /\ call'.failure # "") =>
       /\ call'.strategy # None
       /\ islands'[call'.island_id + 1].population
            = Append(islands[call'.island_id + 1].population, call'.strategy)]_vars

FeatureMapSnapshotOf(data) ==
  [ dimensions |-> data.feature_map.dimensions, archive |-> data.feature_map.archive,
    num_added |-> data.feature_map.num_added,
    num_rejected |-> data.feature_map.num_rejected,
    num_improved |-> data.feature_map.num_improved,
    objects |-> [sid \in { data.feature_map.archive[c] : c \in Cells } \ { None } |->
                   data.objects[sid]] ]

\* the two files are both missing, or both whole and written from one state
OneSnapshot(dir) ==
  \/ dir.db.state = "absent" /\ dir.fm.state = "absent"
  \/ /\ dir.db.state = "complete" /\ dir.fm.state = "complete"
     /\ dir.fm.data = FeatureMapSnapshotOf(dir.db.data)

\* C19: save(directory) is all-or-nothing: a save that fails leaves the
\* directory as it was, and after any save the database file and the
\* feature-map file are whole and reflect one and the same state.
C19_SaveAllOrNothing ==
  [][(call'.op = "save") =>
       /\ (call'.raised # "" => files' = files)
       /\ OneSnapshot(files')]_vars

\* the cells some strategy of the database sits in
OccupiedCells ==
  { c \in Cells : \E sid \in 1 .. Len(strategies) : Vector(sid) = c /\ archive[c] = sid }

\* C20: get_coverage() is the number of occupied cells over the product of
\* the bin counts of all dimensions, and lies between 0 and 1.
C20_CoverageIsOccupiedOverCells ==
  LET coverage == get_coverage(DB)
  IN  /\ coverage.num = Cardinality(OccupiedCells)
      /\ coverage.den = Cardinality(Cells)
      /\ coverage.den = Dimensions[1].bins * Dimensions[2].bins * Dimensions[3].bins
                          * Dimensions[4].bins
      /\ coverage.den > 0
      /\ 0 <= coverage.num /\ coverage.num <= coverage.den

\* two cells are occupied, one of them by a strategy that displaced another
C20_Witness ==
  /\ get_coverage(DB).num = 2
  /\ num_improved > 0
  /\ call.op = "add_strategy" /\ call.added

\* C21: a curate_insights(max_insights) step on a log longer than
\* max_insights (max_insights at least 1) leaves exactly max_insights
\* insights, the diversity pass being backfilled whatever the log holds.
C21_CurateFillsToCap ==
  [][(/\ call'.op = "curate_insights"
      /\ call'.max_insights >= 1
      /\ Len(insights) > call'.max_insights) =>
       Len(insights') = call'.max_insights]_vars

RECURSIVE ElitesOfOthers(_, _, _)
\* the top min(n, number of elites) elites, by score, of every island but
\* the one at position k, island after island from position j on
ElitesOfOthers(k, n, j) ==
  IF j > Len(islands) THEN << >>
  ELSE (IF j # k THEN get_best_strategies(strategies, islands[j], n) ELSE << >>)
         \o ElitesOfOthers(k, n, j + 1)

\* C22: a migrate_strategies(num_migrants) step appends to every island's
\* population the top min(num_migrants, number of elites) elites of every
\* other island as they stood before the call, and none of its own.
C22_MigrantsFromOtherIslands ==
  [][call'.op = "migrate_strategies" =>
       \A k \in 1 .. Len(islands) :
         islands'[k].population
           = islands[k].population \o ElitesOfOthers(k, call'.num_migrants, 1)]_vars

InsightCount(log, island_id) == Len(InsightsOfIsland(log, island_id, TRUE))

\* C24: after the curation step of the main loop, every island that had more
\* than 100 insights in the log has at most 50, whatever the curation service
\* returned, and the insights of every other island are as they were.
C24_CurationTrimsToFifty ==
  [][(call'.op = "QuantEvolve.curate_insights" /\ call'.raised = "") =>
       \A k \in 1 .. Len(islands) :
         IF InsightCount(insights, islands[k].island_id) > 100
           THEN InsightCount(insights', islands[k].island_id) <= 50
           ELSE InsightsOfIsland(insights', islands[k].island_id, TRUE)
                  = InsightsOfIsland(insights, islands[k].island_id, TRUE)]_vars

\* C25: the random cousins a sample_cousins call returns are members of the
\* island's population other than the parent, and no strategy is among them
\* twice.
C25_RandomCousinsDistinct ==
  call.op = "sample_cousins" =>
    /\ Range(call.random) \subseteq Range(islands[call.island_id + 1].population) \ { call.strategy }
    /\ \A a, b \in 1 .. Len(call.random) : a # b => call.random[a] # call.random[b]

\* C26: get_recent_insights(n) returns the last min(n, length of the log)
\* entries of the insight log, in log order; for n = 0 it returns none.
C26_RecentInsightsAreLastN ==
  call.op = "get_recent_insights" =>
    call.recent = SubSeq(insights, Len(insights) - Min(call.n, Len(insights)) + 1,
                         Len(insights))

\* C27: each FeatureMap.add increments exactly one counter by one: num_added
\* iff the cell was empty, num_improved iff the occupant was replaced,
\* num_rejected otherwise (add_strategy makes one add, initialize_islands one
\* per seed); and num_added is the number of occupied cells.
C27_OneCounterPerAdd ==
  [][/\ (call'.op = "add_strategy" /\ call'.raised = "") =>
          LET cell == strategies'[call'.strategy].feature_vector
              d_added == num_added' - num_added
              d_improved == num_improved' - num_improved
              d_rejected == num_rejected' - num_rejected
          IN  /\ <<d_added, d_improved, d_rejected>>
                   \in { <<1, 0, 0>>, <<0, 1, 0>>, <<0, 0, 1>> }
              /\ d_added = 1 <=> archive[cell] = None
              /\ d_improved = 1 <=> (archive[cell] # None /\ archive'[cell] # archive[cell])
     /\ (call'.op = "initialize_islands" /\ call'.raised = "") =>
          /\ num_added' >= num_added /\ num_improved' >= num_improved
          /\ num_rejected' >= num_rejected
          /\ num_added' + num_improved' + num_rejected'
               = num_added + num_improved + num_rejected + num_islands
     /\ num_added' = Cardinality({ c \in Cells : archive'[c] # None })]_vars

\* an add_strategy was rejected after an addition and a replacement
C27_Witness ==
  /\ call.op = "add_strategy" /\ call.raised = "" /\ ~call.added
  /\ num_added > 0 /\ num_improved > 0 /\ num_rejected > 0

\* C28: for every dimension of type binary, the coordinate of a computed
\* feature vector is the strategy's category integer modulo the bins of the
\* dimension, the integer being 1 when the metrics do not hold it.
C28_CategoryCoordinate ==
  \A sid \in 1 .. Len(strategies) :
    strategies[sid].feature_vector # NoVector =>
      \A i \in DimIdx :
        Dimensions[i].type = "binary" =>
          strategies[sid].feature_vector[i]
            = Get(strategies[sid].metrics, "strategy_category_bin", 1) % Dimensions[i].bins

\* C30: every insight an evolve_island step of generation g appends to the
\* insight log carries generation g.
C30_InsightCarriesLoopGeneration ==
  [][call'.op = "evolve_island" =>
       /\ IsPrefix(insights, insights')
       /\ \A i \in (Len(insights) + 1) .. Len(insights') :
            insights'[i].generation = call'.generation]_vars

====
